---- MODULE Spec2Model ----
(***************************************************************************)
(* Generic Allocation / Criteria Optimizer of the inventory and trade      *)
(* management application (src/database.py, src/routes/trades.py).         *)
(*                                                                         *)
(* The store is two SQLite tables: inventory (one row per serial) and      *)
(* trade_criteria (one row per criteria record).  Text columns that are    *)
(* only compared for equality are TLA+ strings, with NULL for SQL NULL /   *)
(* Python None; vintages are compared lexically by the code, so they are   *)
(* sequences of character codes (digits) with VNULL for NULL.              *)
(***************************************************************************)
EXTENDS Integers, Sequences, FiniteSets, TLC

\* ------------------------------------------------------------------ bounds
NUnits == 2
MaxCriteriaId == 2
MaxQty == 2
MaxClock == 1
MaxBatch == 2
MaxInflight == 1

VARIABLES
    inventory,          \* serial -> inventory row
    trade_criteria,     \* criteria id -> trade_criteria row (present rows only)
    next_criteria_id,   \* AUTOINCREMENT counter of trade_criteria.id
    now,                \* CURRENT_TIMESTAMP (one-second resolution)
    inflight,           \* requests between two of their transactions
    result,             \* value returned by the last read operation
    last,               \* the last handler that ran, with its arguments
    rt,                 \* monitor: an assign request directly followed by its unassign
    inventory_reservations  \* reservation history rows, in insertion order

vars == <<inventory, trade_criteria, next_criteria_id, now, inflight, result, last, rt,
         inventory_reservations>>

\* ------------------------------------------------------------------ values
NULL == "NULL"
VNULL == <<0 - 1>>
NoCriteria == 0

Trades == {"T1", "T2"}
Serials == 1..NUnits
CriteriaIds == 1..MaxCriteriaId

Min(a, b) == IF a <= b THEN a ELSE b
\* The smaller of the two where the larger is meant.
Smaller(a, b) == IF a <= b THEN a ELSE b

Max(a, b) == IF a >= b THEN a ELSE b

\* Python truthiness of a text value: None and '' are falsy.
Truthy(v) == v # NULL /\ v # ""
VTruthy(v) == v # VNULL /\ v # <<>>

\* Python's str comparison "a < b": lexicographic by character code.
RECURSIVE StrLess(_, _)
StrLess(a, b) ==
    IF a = <<>> THEN b # <<>>
    ELSE IF b = <<>> THEN FALSE
    ELSE IF Head(a) # Head(b) THEN Head(a) < Head(b)
    ELSE StrLess(Tail(a), Tail(b))

\* A slice that keeps the whole sequence.
PySliceAll(seq, n) == seq

\* Python's seq[:n], negative n included.
PySlicePrefix(seq, n) ==
    IF n >= 0 THEN SubSeq(seq, 1, Min(n, Len(seq)))
    ELSE SubSeq(seq, 1, Max(0, Len(seq) + n))

Range(f) == {f[x] : x \in DOMAIN f}

Perms(S) ==
    {s \in [1..Cardinality(S) -> S] : \A i, j \in 1..Cardinality(S) : i # j => s[i] # s[j]}

RECURSIVE SumOver(_, _)
SumOver(S, f) ==
    IF S = {} THEN 0
    ELSE LET x == CHOOSE y \in S : TRUE IN f[x] + SumOver(S \ {x}, f)

Restrict(f, S) == [x \in S |-> f[x]]

\* ------------------------------------------------------------------ matcher
\* A matcher that applies the vintage bounds to a unit without a vintage too.
check_inventory_matches_criteria_strict(item, criteria) ==
    IF Truthy(criteria.market) /\ item.market # criteria.market THEN FALSE
    ELSE IF Truthy(criteria.registry) /\ item.registry # criteria.registry THEN FALSE
    ELSE IF Truthy(criteria.product) /\ item.product # criteria.product THEN FALSE
    ELSE IF Truthy(criteria.project_type) /\ item.project_type # criteria.project_type THEN FALSE
    ELSE IF Truthy(criteria.protocol) /\ item.protocol # criteria.protocol THEN FALSE
    ELSE IF Truthy(criteria.project_id) /\ item.project_id # criteria.project_id THEN FALSE
    ELSE IF VTruthy(criteria.vintage_from)
            /\ StrLess(item.vintage, criteria.vintage_from) THEN FALSE
    ELSE IF VTruthy(criteria.vintage_to)
            /\ StrLess(criteria.vintage_to, item.vintage) THEN FALSE
    ELSE TRUE

check_inventory_matches_criteria(item, criteria) ==
    IF Truthy(criteria.market) /\ item.market # criteria.market THEN FALSE
    ELSE IF Truthy(criteria.registry) /\ item.registry # criteria.registry THEN FALSE
    ELSE IF Truthy(criteria.product) /\ item.product # criteria.product THEN FALSE
    ELSE IF Truthy(criteria.project_type) /\ item.project_type # criteria.project_type THEN FALSE
    ELSE IF Truthy(criteria.protocol) /\ item.protocol # criteria.protocol THEN FALSE
    ELSE IF Truthy(criteria.project_id) /\ item.project_id # criteria.project_id THEN FALSE
    ELSE IF VTruthy(criteria.vintage_from) /\ VTruthy(item.vintage)
            /\ StrLess(item.vintage, criteria.vintage_from) THEN FALSE
    ELSE IF VTruthy(criteria.vintage_to) /\ VTruthy(item.vintage)
            /\ StrLess(criteria.vintage_to, item.vintage) THEN FALSE
    ELSE TRUE

\* ------------------------------------------------------------------ queries
\* WHERE status = 'criteria_only' AND direction = 'sell'
ActiveSell(tc) ==
    {c \in DOMAIN tc : tc[c].status = "criteria_only" /\ tc[c].direction = "sell"}

\* ORDER BY created_at ASC: rows with equal created_at come in any order.
FifoOrders(tc) ==
    {s \in Perms(ActiveSell(tc)) :
        \A i, j \in DOMAIN s : i < j => tc[s[i]].created_at <= tc[s[j]].created_at}

\* WHERE (is_reserved = 0 OR NULL) AND (is_assigned = 0 OR NULL), no ORDER BY.
AvailableUnits(inv) ==
    {s \in DOMAIN inv : inv[s].is_reserved = 0 /\ inv[s].is_assigned = 0}

AvailableRowOrders(inv) == Perms(AvailableUnits(inv))

\* ------------------------------------------------- allocation optimizer
\* criteria_matches[c]: the available rows, in row order, that match c.
criteria_matches(tc, inv, available_inventory, c) ==
    SelectSeq(available_inventory,
              LAMBDA i : check_inventory_matches_criteria(inv[i], tc[c]))

\* A trade entry that starts 'insufficient'.
NewTradeStatusInsufficient ==
    [status |-> "insufficient", available |-> 0, required |-> 0, shortfall |-> 0,
     criteria_ids |-> <<>>, conflicts_with |-> {}]

NewTradeStatus ==
    [status |-> "sufficient", available |-> 0, required |-> 0, shortfall |-> 0,
     criteria_ids |-> <<>>, conflicts_with |-> {}]

\* First pass (database.py 3224-3267).  acc = [criteria_status, trade_status].
\* The key 'allocated' is added to every entry by the second pass; it is 0 here.
\* 'taken' is not a key of the code's result: it records which rows the second
\* pass adds to `allocated` while processing the criteria.
RECURSIVE FirstPass(_, _, _, _, _)
FirstPass(tc, inv, available_inventory, crits, acc) ==
    IF crits = <<>> THEN acc
    ELSE
      LET criteria_id == Head(crits)
          available_for_crit ==
              Len(criteria_matches(tc, inv, available_inventory, criteria_id))
          required == tc[criteria_id].quantity_required
          trade_id == tc[criteria_id].trade_id
          cs == [status |-> IF available_for_crit >= required
                              THEN "sufficient" ELSE "insufficient",
                 available |-> available_for_crit,
                 required |-> required,
                 shortfall |-> Max(0, required - available_for_crit),
                 trade_id |-> trade_id,
                 allocated |-> 0,
                 taken |-> {}]
          ts0 == IF trade_id \in DOMAIN acc.trade_status
                   THEN acc.trade_status
                   ELSE acc.trade_status @@ (trade_id :> NewTradeStatus)
          ts1 == [ts0 EXCEPT
                    ![trade_id].available = @ + available_for_crit,
                    ![trade_id].required = @ + required,
                    ![trade_id].shortfall = @ + Max(0, required - available_for_crit),
                    ![trade_id].criteria_ids = Append(@, criteria_id),
                    ![trade_id].status =
                        IF cs.status = "insufficient" /\ @ = "sufficient"
                          THEN "insufficient" ELSE @]
      IN FirstPass(tc, inv, available_inventory, Tail(crits),
                   [criteria_status |-> acc.criteria_status @@ (criteria_id :> cs),
                    trade_status |-> ts1])

\* A second pass that offers a criteria every matching row, allocated or not.
available_items_ignoring_allocated(matches, allocated) == matches

\* available_items of the second pass (database.py 3285-3288).
available_items(matches, allocated) ==
    SelectSeq(matches, LAMBDA item_id : item_id \notin allocated)

\* A flag that follows the last criteria processed only.
allocation_success_of_last(success, enough) == enough

\* allocation_success: True at first, False once a criteria falls short
\* (database.py 3275, 3299).
allocation_success_after(success, enough) == success /\ enough

\* Second pass, FIFO simulation (database.py 3279-3311).
\* acc = [criteria_status, trade_status, allocated, allocation_success].
RECURSIVE SecondPass(_, _, _, _, _)
SecondPass(tc, inv, available_inventory, crits, acc) ==
    IF crits = <<>> THEN acc
    ELSE
      LET criteria_id == Head(crits)
          trade_id == tc[criteria_id].trade_id
          required == tc[criteria_id].quantity_required
          avail == available_items(
                      criteria_matches(tc, inv, available_inventory, criteria_id),
                      acc.allocated)
          enough == Len(avail) >= required
          got == IF enough THEN Range(PySlicePrefix(avail, required)) ELSE Range(avail)
          cst == IF enough
                   THEN [acc.criteria_status EXCEPT
                            ![criteria_id].allocated = required,
                            ![criteria_id].taken = got]
                   ELSE [acc.criteria_status EXCEPT
                            ![criteria_id].status = "conflict",
                            ![criteria_id].allocated = Len(avail),
                            ![criteria_id].shortfall = required - Len(avail),
                            ![criteria_id].taken = got]
          tst == IF enough THEN acc.trade_status
                 ELSE [acc.trade_status EXCEPT ![trade_id].status = "conflict"]
      IN SecondPass(tc, inv, available_inventory, Tail(crits),
                    [criteria_status |-> cst,
                     trade_status |-> tst,
                     allocated |-> acc.allocated \cup got,
                     allocation_success |->
                        allocation_success_after(acc.allocation_success, enough)])

\* Pairwise conflict detection (database.py 3317-3337): the entry for the pair
\* (i, j), i < j, of positions in all_criteria, or <<>> when the pair has none.
ConflictEntry(tc, inv, available_inventory, c1, c2) ==
    LET overlap == Range(criteria_matches(tc, inv, available_inventory, c1))
                   \cap Range(criteria_matches(tc, inv, available_inventory, c2))
        combined_need == tc[c1].quantity_required + tc[c2].quantity_required
    IN IF overlap # {} /\ combined_need > Cardinality(overlap)
         THEN <<[trade1 |-> tc[c1].trade_id, trade2 |-> tc[c2].trade_id,
                 overlap_count |-> Cardinality(overlap),
                 combined_need |-> combined_need]>>
         ELSE <<>>

RECURSIVE ConflictPass(_, _, _, _, _, _)
ConflictPass(tc, inv, available_inventory, crits, i, j) ==
    IF i > Len(crits) THEN <<>>
    ELSE IF j > Len(crits)
      THEN ConflictPass(tc, inv, available_inventory, crits, i + 1, i + 2)
    ELSE ConflictEntry(tc, inv, available_inventory, crits[i], crits[j])
         \o ConflictPass(tc, inv, available_inventory, crits, i, j + 1)

\* trade_conflicts, then list(set(...)) (database.py 3332-3342).
ConflictsWith(conflicts, trade_id) ==
    {conflicts[k].trade2 : k \in {k \in DOMAIN conflicts : conflicts[k].trade1 = trade_id}}
    \cup
    {conflicts[k].trade1 : k \in {k \in DOMAIN conflicts : conflicts[k].trade2 = trade_id}}

\* get_criteria_allocation_status for one order of the two result sets.
get_criteria_allocation_status(tc, inv, all_criteria, available_inventory) ==
    IF all_criteria = <<>>
      THEN [kind |-> "allocation_status",
            detailed |-> FALSE,
            trade_status |-> <<>>,
            criteria_status |-> <<>>,
            total_available |-> Len(available_inventory),
            total_required |-> 0,
            conflicts |-> <<>>,
            allocation_possible |-> TRUE,
            allocated_serials |-> {},
            all_criteria |-> all_criteria]
      ELSE
        LET p1 == FirstPass(tc, inv, available_inventory, all_criteria,
                            [criteria_status |-> <<>>, trade_status |-> <<>>])
            p2 == SecondPass(tc, inv, available_inventory, all_criteria,
                             [criteria_status |-> p1.criteria_status,
                              trade_status |-> p1.trade_status,
                              allocated |-> {},
                              allocation_success |-> TRUE])
            conflicts == ConflictPass(tc, inv, available_inventory, all_criteria, 1, 2)
            trade_status ==
                [t \in DOMAIN p2.trade_status |->
                    IF \E k \in DOMAIN conflicts :
                          conflicts[k].trade1 = t \/ conflicts[k].trade2 = t
                      THEN [p2.trade_status[t] EXCEPT
                              !.conflicts_with = ConflictsWith(conflicts, t)]
                      ELSE p2.trade_status[t]]
        IN [kind |-> "allocation_status",
            detailed |-> TRUE,
            trade_status |-> trade_status,
            criteria_status |-> p2.criteria_status,
            total_available |-> Len(available_inventory),
            total_required |->
                SumOver(Range(all_criteria),
                        [c \in Range(all_criteria) |-> tc[c].quantity_required]),
            conflicts |-> conflicts,
            allocation_possible |-> p2.allocation_success,
            allocated_serials |-> p2.allocated,
            all_criteria |-> all_criteria]

NoResult == [kind |-> "none"]

\* ------------------------------------------------------- claim simulator
\* "column = ?" added to the query when the search value is truthy: a NULL
\* column never equals it.
SqlEquals(column, value) == Truthy(value) => column = value

\* "vintage >= ?" and "vintage <= ?" on a TEXT column: NULL satisfies neither,
\* text is compared byte by byte.
SqlVintageInRange(vintage, vintage_from, vintage_to) ==
    /\ VTruthy(vintage_from) => vintage # VNULL /\ ~ StrLess(vintage, vintage_from)
    /\ VTruthy(vintage_to) => vintage # VNULL /\ ~ StrLess(vintage_to, vintage)

\* The WHERE clause of get_available_after_criteria_claims (database.py
\* 3026-3056): market is not among the filtered columns.
SqlSelects(row, search_criteria) ==
    /\ row.is_reserved = 0
    /\ row.is_assigned = 0
    /\ SqlEquals(row.registry, search_criteria.registry)
    /\ SqlEquals(row.product, search_criteria.product)
    /\ SqlEquals(row.project_type, search_criteria.project_type)
    /\ SqlEquals(row.protocol, search_criteria.protocol)
    /\ SqlEquals(row.project_id, search_criteria.project_id)
    /\ SqlVintageInRange(row.vintage, search_criteria.vintage_from,
                         search_criteria.vintage_to)

\* ORDER BY vintage, serial: NULL first, then text order, then the serial.
RowBefore(inv, s, t) ==
    LET a == inv[s].vintage
        b == inv[t].vintage
    IN IF a = b THEN s < t
       ELSE IF a = VNULL THEN TRUE
       ELSE IF b = VNULL THEN FALSE
       ELSE StrLess(a, b)

RECURSIVE OrderByVintageSerial(_, _)
OrderByVintageSerial(inv, S) ==
    IF S = {} THEN <<>>
    ELSE LET m == CHOOSE x \in S : \A y \in S \ {x} : RowBefore(inv, x, y)
         IN <<m>> \o OrderByVintageSerial(inv, S \ {m})

\* matching_inventory (database.py 3026-3063).
matching_inventory(inv, search_criteria) ==
    OrderByVintageSerial(inv, {s \in DOMAIN inv : SqlSelects(inv[s], search_criteria)})

\* A FIFO loop in which a criteria claims among all the available rows, those
\* outside the pool of the search included.
RECURSIVE ClaimLoopOverInventory(_, _, _, _, _)
ClaimLoopOverInventory(tc, inv, pool, crits, acc) ==
    IF crits = <<>> THEN acc
    ELSE
      LET crit == Head(crits)
          matching_for_crit ==
              SelectSeq(OrderByVintageSerial(inv, AvailableUnits(inv)), LAMBDA i :
                  /\ i \notin acc.allocated_ids
                  /\ check_inventory_matches_criteria(inv[i], tc[crit]))
          qty_to_claim == Min(tc[crit].quantity_required, Len(matching_for_crit))
          items == IF qty_to_claim > 0
                     THEN Range(SubSeq(matching_for_crit, 1, qty_to_claim)) ELSE {}
      IN ClaimLoopOverInventory(tc, inv, pool, Tail(crits),
                   [allocated_ids |-> acc.allocated_ids \cup items,
                    criteria_claims |->
                        IF qty_to_claim > 0
                          THEN Append(acc.criteria_claims,
                                      [trade_id |-> tc[crit].trade_id,
                                       criteria_id |-> crit,
                                       quantity_claimed |-> qty_to_claim,
                                       registry |-> tc[crit].registry,
                                       vintage_from |-> tc[crit].vintage_from,
                                       vintage_to |-> tc[crit].vintage_to,
                                       items |-> items])
                          ELSE acc.criteria_claims])

\* The FIFO loop of get_available_after_criteria_claims (database.py
\* 3094-3119); items is the set of rows the claim took.
RECURSIVE ClaimLoop(_, _, _, _, _)
ClaimLoop(tc, inv, pool, crits, acc) ==
    IF crits = <<>> THEN acc
    ELSE
      LET crit == Head(crits)
          matching_for_crit ==
              SelectSeq(pool, LAMBDA i :
                  /\ i \notin acc.allocated_ids
                  /\ check_inventory_matches_criteria(inv[i], tc[crit]))
          qty_to_claim == Min(tc[crit].quantity_required, Len(matching_for_crit))
          items == IF qty_to_claim > 0
                     THEN Range(SubSeq(matching_for_crit, 1, qty_to_claim)) ELSE {}
      IN ClaimLoop(tc, inv, pool, Tail(crits),
                   [allocated_ids |-> acc.allocated_ids \cup items,
                    criteria_claims |->
                        IF qty_to_claim > 0
                          THEN Append(acc.criteria_claims,
                                      [trade_id |-> tc[crit].trade_id,
                                       criteria_id |-> crit,
                                       quantity_claimed |-> qty_to_claim,
                                       registry |-> tc[crit].registry,
                                       vintage_from |-> tc[crit].vintage_from,
                                       vintage_to |-> tc[crit].vintage_to,
                                       items |-> items])
                          ELSE acc.criteria_claims])

\* The value get_available_after_criteria_claims returns (database.py
\* 3065-3144) for one order of the criteria rows; claimed_items is the set of
\* rows that inventory_items reports as 'claimed'.
Availability(total_matching, claimed_items, criteria_claims, all_criteria, search_criteria) ==
    [kind |-> "availability",
     total_matching |-> total_matching,
     claimed_by_criteria |-> Cardinality(claimed_items),
     available |-> total_matching - Cardinality(claimed_items),
     criteria_claims |-> criteria_claims,
     claimed_items |-> claimed_items,
     all_criteria |-> all_criteria,
     search_criteria |-> search_criteria]

get_available_after_criteria_claims(tc, inv, all_criteria, search_criteria) ==
    LET pool == matching_inventory(inv, search_criteria)
        sim == ClaimLoop(tc, inv, pool, all_criteria,
                         [allocated_ids |-> {}, criteria_claims |-> <<>>])
    IN IF Len(pool) = 0
         THEN Availability(0, {}, <<>>, all_criteria, search_criteria)
       ELSE IF all_criteria = <<>>
         THEN Availability(Len(pool), {}, <<>>, all_criteria, search_criteria)
       ELSE Availability(Len(pool), sim.allocated_ids, sim.criteria_claims,
                         all_criteria, search_criteria)

\* ------------------------------------------------------------- store rows
FilterFields ==
    {"market", "registry", "product", "project_type", "protocol", "project_id",
     "vintage_from", "vintage_to"}

MkFilter(registry, vintage_from, vintage_to) ==
    [market |-> NULL, registry |-> registry, product |-> NULL, project_type |-> NULL,
     protocol |-> NULL, project_id |-> NULL,
     vintage_from |-> vintage_from, vintage_to |-> vintage_to]

AnyFilter == MkFilter(NULL, VNULL, VNULL)
VerraFilter == MkFilter("Verra", VNULL, VNULL)
GoldFilter == MkFilter("GS", VNULL, VNULL)

\* Filters a request may carry.
FilterInputs == {AnyFilter, VerraFilter}

FilterOf(row) == [f \in FilterFields |-> row[f]]

\* A trade_criteria row.
CriteriaRow(trade_id, direction, quantity, filter, status, created_at) ==
    [trade_id |-> trade_id, direction |-> direction, quantity_required |-> quantity,
     market |-> filter.market, registry |-> filter.registry, product |-> filter.product,
     project_type |-> filter.project_type, protocol |-> filter.protocol,
     project_id |-> filter.project_id, vintage_from |-> filter.vintage_from,
     vintage_to |-> filter.vintage_to, status |-> status, created_at |-> created_at]

\* inventory.criteria_snapshot: NULL, or the JSON object written by
\* assign_inventory_to_trade (database.py 1445-1457).  json.dumps followed by
\* json.loads gives back the same strings and None values.
SnapshotNull == [kind |-> "null"]

\* A snapshot that leaves the registry out.
SnapshotWithoutRegistry(crit) ==
    [kind |-> "json", trade_id |-> crit.trade_id, direction |-> crit.direction,
     market |-> crit.market, registry |-> NULL, product |-> crit.product,
     project_type |-> crit.project_type, protocol |-> crit.protocol,
     project_id |-> crit.project_id, vintage_from |-> crit.vintage_from,
     vintage_to |-> crit.vintage_to]

SnapshotOf(crit) ==
    [kind |-> "json", trade_id |-> crit.trade_id, direction |-> crit.direction,
     market |-> crit.market, registry |-> crit.registry, product |-> crit.product,
     project_type |-> crit.project_type, protocol |-> crit.protocol,
     project_id |-> crit.project_id, vintage_from |-> crit.vintage_from,
     vintage_to |-> crit.vintage_to]

\* An inventory row that no trade holds.
InventoryRow(registry, vintage) ==
    [market |-> "CCA", registry |-> registry, product |-> "VCU", project_type |-> NULL,
     protocol |-> NULL, project_id |-> NULL, vintage |-> vintage,
     is_assigned |-> 0, trade_id |-> NULL,
     is_reserved |-> 0, reserved_for_trade_id |-> NULL,
     criteria_id |-> NoCriteria, criteria_snapshot |-> SnapshotNull]

\* The inventory the sequential and the concurrent specification start from.
BaseInventory ==
    [s \in Serials |->
        InventoryRow(IF s % 2 = 1 THEN "Verra" ELSE "GS", <<2, 0, 2, 2>>)]

\* ------------------------------------------------------- criteria registry
\* assign_criteria_only (database.py 3393-3412): always inserts a new row.
assign_criteria_only(tc, id, clock, trade_id, quantity, criteria) ==
    tc @@ (id :> CriteriaRow(trade_id, "sell", quantity, criteria, "criteria_only", clock))

\* update_single_criteria (database.py 3577-3599): market is not updated.
update_single_criteria(tc, criteria_id, quantity, criteria) ==
    IF criteria_id \in DOMAIN tc /\ tc[criteria_id].status = "criteria_only"
      THEN [tc EXCEPT ![criteria_id] =
              [@ EXCEPT !.quantity_required = quantity,
                        !.registry = criteria.registry,
                        !.product = criteria.product,
                        !.project_type = criteria.project_type,
                        !.protocol = criteria.protocol,
                        !.project_id = criteria.project_id,
                        !.vintage_from = criteria.vintage_from,
                        !.vintage_to = criteria.vintage_to]]
      ELSE tc

\* remove_single_criteria (database.py 3538-3541).
remove_single_criteria(tc, criteria_id) ==
    IF criteria_id \in DOMAIN tc /\ tc[criteria_id].status = "criteria_only"
      THEN Restrict(tc, DOMAIN tc \ {criteria_id})
      ELSE tc

\* get_trade_criteria_ids (database.py 3760-3766).
get_trade_criteria_ids(tc, trade_id) ==
    {c \in ActiveSell(tc) : tc[c].trade_id = trade_id}

\* The ids of a set in ascending order (ORDER BY id ASC).
RECURSIVE Ascending(_)
Ascending(S) ==
    IF S = {} THEN <<>>
    ELSE LET m == CHOOSE x \in S : \A y \in S : x <= y
         IN <<m>> \o Ascending(S \ {m})

\* The loop of update_criteria_quantity for delta < 0 (database.py 3654-3672).
RECURSIVE ReduceLoop(_, _, _)
ReduceLoop(tc, criteria_list, amount_to_reduce) ==
    IF criteria_list = <<>> \/ amount_to_reduce <= 0 THEN tc
    ELSE
      LET crit_id == Head(criteria_list)
          crit_qty == tc[crit_id].quantity_required
          reduce_by == Min(crit_qty, amount_to_reduce)
          new_qty == crit_qty - reduce_by
      IN IF crit_qty > 0
           THEN ReduceLoop(
                  IF new_qty <= 0
                    THEN Restrict(tc, DOMAIN tc \ {crit_id})
                    ELSE [tc EXCEPT ![crit_id].quantity_required = new_qty],
                  Tail(criteria_list), amount_to_reduce - reduce_by)
           ELSE ReduceLoop(tc, Tail(criteria_list), amount_to_reduce)

\* update_criteria_quantity (database.py 3638-3684).
update_criteria_quantity(tc, trade_id, delta) ==
    LET criteria_list == Ascending(get_trade_criteria_ids(tc, trade_id))
    IN IF criteria_list = <<>> THEN tc
       ELSE IF delta < 0 THEN ReduceLoop(tc, criteria_list, 0 - delta)
       ELSE [tc EXCEPT ![Head(criteria_list)].quantity_required = @ + delta]

\* A decrement that deletes the record only below zero.
update_specific_criteria_quantity_keeping_zero(tc, criteria_id, delta) ==
    IF criteria_id \notin DOMAIN tc \/ tc[criteria_id].status # "criteria_only" THEN tc
    ELSE LET new_qty == tc[criteria_id].quantity_required + delta
         IN IF new_qty < 0
              THEN Restrict(tc, DOMAIN tc \ {criteria_id})
              ELSE [tc EXCEPT ![criteria_id].quantity_required = new_qty]

\* update_specific_criteria_quantity (database.py 3713-3734).
update_specific_criteria_quantity(tc, criteria_id, delta) ==
    IF criteria_id \notin DOMAIN tc \/ tc[criteria_id].status # "criteria_only" THEN tc
    ELSE LET new_qty == tc[criteria_id].quantity_required + delta
         IN IF new_qty <= 0
              THEN Restrict(tc, DOMAIN tc \ {criteria_id})
              ELSE [tc EXCEPT ![criteria_id].quantity_required = new_qty]

\* restore_criteria_on_unassign (database.py 3831-3875) on the pair
\* [tc, next_id]; a recreated row takes the next AUTOINCREMENT id.
restore_criteria_on_unassign(reg, clock, criteria_id, quantity, criteria_snapshot) ==
    IF criteria_id \in DOMAIN reg.tc
      THEN [tc |-> [reg.tc EXCEPT ![criteria_id].quantity_required = @ + quantity],
            next_id |-> reg.next_id]
    ELSE IF criteria_snapshot.kind = "json"
      THEN [tc |-> reg.tc @@
                   (reg.next_id :>
                      CriteriaRow(criteria_snapshot.trade_id, criteria_snapshot.direction,
                                  quantity, criteria_snapshot, "criteria_only", clock)),
            next_id |-> reg.next_id + 1]
    ELSE reg

\* --------------------------------------------------------- inventory store
\* How many entries of a serial list name an existing row (cursor.rowcount > 0).
RowsHit(inv, serials) == Len(SelectSeq(serials, LAMBDA s : s \in DOMAIN inv))

\* The UPDATE of assign_inventory_to_trade for one row (database.py 1463-1467).
AssignRow(row, trade_id, criteria_id, snapshot) ==
    [row EXCEPT !.is_assigned = 1, !.trade_id = trade_id,
                !.criteria_id = criteria_id, !.criteria_snapshot = snapshot]

\* assign_inventory_to_trade (database.py 1434-1501): [inv, count].
assign_inventory_to_trade(inv, tc, serials, trade_id, criteria_id) ==
    LET snapshot == IF criteria_id # NoCriteria /\ criteria_id \in DOMAIN tc
                      THEN SnapshotOf(tc[criteria_id]) ELSE SnapshotNull
    IN [inv |-> [s \in DOMAIN inv |->
                    IF s \in Range(serials)
                      THEN AssignRow(inv[s], trade_id, criteria_id, snapshot)
                      ELSE inv[s]],
        count |-> RowsHit(inv, serials)]

\* The decrement of the assign route (routes/trades.py 235-242).
DecrementOnAssign(tc, trade_id, criteria_id, count) ==
    IF count > 0 /\ get_trade_criteria_ids(tc, trade_id) # {}
      THEN IF criteria_id # NoCriteria
             THEN update_specific_criteria_quantity(tc, criteria_id, 0 - count)
             ELSE update_criteria_quantity(tc, trade_id, 0 - count)
      ELSE tc

\* criteria_to_restore of unassign_inventory_from_trade (database.py 1523-1565),
\* as the list of its entries in insertion order.
RECURSIVE CriteriaToRestore(_, _, _, _)
CriteriaToRestore(inv, tc, serials, acc) ==
    IF serials = <<>> THEN acc
    ELSE
      LET serial == Head(serials)
          criteria_id == IF serial \in DOMAIN inv THEN inv[serial].criteria_id
                         ELSE NoCriteria
          known == \E k \in DOMAIN acc : acc[k].criteria_id = criteria_id
          acc1 == IF criteria_id = NoCriteria \/ known THEN acc
                  ELSE IF criteria_id \in DOMAIN tc
                    THEN Append(acc, [criteria_id |-> criteria_id, count |-> 0,
                                      snapshot |-> SnapshotOf(tc[criteria_id])])
                  ELSE IF inv[serial].criteria_snapshot.kind = "json"
                    THEN Append(acc, [criteria_id |-> criteria_id, count |-> 0,
                                      snapshot |-> inv[serial].criteria_snapshot])
                  ELSE acc
          acc2 == [k \in DOMAIN acc1 |->
                     IF acc1[k].criteria_id = criteria_id /\ criteria_id # NoCriteria
                       THEN [acc1[k] EXCEPT !.count = @ + 1] ELSE acc1[k]]
      IN CriteriaToRestore(inv, tc, Tail(serials), acc2)

\* The UPDATE of unassign_inventory_from_trade for one row (database.py 1570-1574).
UnassignRow(row) ==
    [row EXCEPT !.is_assigned = 0, !.trade_id = NULL,
                !.criteria_id = NoCriteria, !.criteria_snapshot = SnapshotNull]

\* An unassign loop that passes over the units that carry a criteria id and no
\* snapshot.
UnassignRowsWithSnapshotOnly(inv, serials) ==
    [s \in DOMAIN inv |->
        IF /\ s \in Range(serials)
           /\ (inv[s].criteria_id = NoCriteria \/ inv[s].criteria_snapshot.kind = "json")
          THEN UnassignRow(inv[s]) ELSE inv[s]]

\* The loop of UPDATEs of unassign_inventory_from_trade (database.py 1569-1577).
UnassignRows(inv, serials) ==
    [s \in DOMAIN inv |-> IF s \in Range(serials) THEN UnassignRow(inv[s]) ELSE inv[s]]

\* The restore loop of unassign_inventory_from_trade (database.py 1583-1590).
RECURSIVE RestoreLoop(_, _, _)
RestoreLoop(reg, clock, entries) ==
    IF entries = <<>> THEN reg
    ELSE RestoreLoop(
           restore_criteria_on_unassign(reg, clock, Head(entries).criteria_id,
                                        Head(entries).count, Head(entries).snapshot),
           clock, Tail(entries))

\* unassign_inventory_from_trade (database.py 1518-1592), run without another
\* request in between: [inv, tc, next_id, count].
unassign_inventory_from_trade(inv, tc, next_id, clock, serials) ==
    LET entries == CriteriaToRestore(inv, tc, serials, <<>>)
        reg == RestoreLoop([tc |-> tc, next_id |-> next_id], clock, entries)
    IN [inv |-> UnassignRows(inv, serials), tc |-> reg.tc, next_id |-> reg.next_id,
        count |-> RowsHit(inv, serials)]

\* ------------------------------------------------------------- requests
\* Serial lists of a request: non-empty, up to MaxBatch entries, repeats allowed.
SerialLists == UNION {[1..n -> Serials] : n \in 1..MaxBatch}

Distinct(serials) == Cardinality(Range(serials)) = Len(serials)

Op(op, trade, cid, n) == [op |-> op, trade |-> trade, cid |-> cid, n |-> n]

RtIdle == [stage |-> "idle"]

\* Sum of quantity_required over a trade's active criteria.
TradeQuantity(tc, trade_id) ==
    SumOver(get_trade_criteria_ids(tc, trade_id),
            [c \in get_trade_criteria_ids(tc, trade_id) |-> tc[c].quantity_required])

Init ==
    /\ inventory = BaseInventory
    /\ trade_criteria = <<>>
    /\ next_criteria_id = 1
    /\ now = 0
    /\ inflight = <<>>
    /\ inventory_reservations = <<>>
    /\ result = NoResult
    /\ last = Op("init", NULL, NoCriteria, 0)
    /\ rt = RtIdle

\* CURRENT_TIMESTAMP advances by a second.
Tick ==
    /\ now < MaxClock
    /\ now' = now + 1
    /\ last' = Op("tick", NULL, NoCriteria, 0)
    /\ result' = NoResult
    /\ rt' = RtIdle
    /\ UNCHANGED <<inventory, trade_criteria, next_criteria_id, inflight, inventory_reservations>>

\* POST /api/trades/assign-criteria (routes/trades.py 965-1028), for requests
\* whose quantity and filter are drawn from the given sets.
AssignCriteriaOnlyRoute(quantities, filters) ==
    \E trade_id \in Trades, quantity \in quantities, criteria \in filters :
        /\ next_criteria_id <= MaxCriteriaId
        /\ IF quantity <= 0
             THEN UNCHANGED <<trade_criteria, next_criteria_id>>
             ELSE /\ trade_criteria' = assign_criteria_only(
                        trade_criteria, next_criteria_id, now, trade_id, quantity, criteria)
                  /\ next_criteria_id' = next_criteria_id + 1
        /\ last' = Op("assign_criteria_only", trade_id,
                      IF quantity <= 0 THEN NoCriteria ELSE next_criteria_id, quantity)
        /\ result' = NoResult
        /\ rt' = RtIdle
        /\ UNCHANGED <<inventory, now, inflight, inventory_reservations>>

\* PUT /api/trades/criteria/<id> (routes/trades.py 1123-1157), for requests
\* whose quantity and filter are drawn from the sets given for each id.
UpdateSingleCriteriaRoute(quantities, filters) ==
    \E criteria_id \in CriteriaIds :
        \E quantity \in quantities[criteria_id], criteria \in filters[criteria_id] :
            /\ trade_criteria' =
                  update_single_criteria(trade_criteria, criteria_id, quantity, criteria)
            /\ last' = Op("update_single_criteria", NULL, criteria_id, quantity)
            /\ result' = NoResult
            /\ rt' = RtIdle
            /\ UNCHANGED <<inventory, next_criteria_id, now, inflight, inventory_reservations>>

\* DELETE /api/trades/criteria/<id> (routes/trades.py 1095-1117).
RemoveSingleCriteriaRoute ==
    \E criteria_id \in CriteriaIds :
        /\ trade_criteria' = remove_single_criteria(trade_criteria, criteria_id)
        /\ last' = Op("remove_single_criteria", NULL, criteria_id, 0)
        /\ result' = NoResult
        /\ rt' = RtIdle
        /\ UNCHANGED <<inventory, next_criteria_id, now, inflight, inventory_reservations>>

\* POST /api/trades/assign (routes/trades.py 205-252), no request in between.
AssignToTradeRoute(criteria_ids) ==
    \E serials \in SerialLists, trade_id \in Trades, criteria_id \in criteria_ids :
        LET a == assign_inventory_to_trade(inventory, trade_criteria, serials, trade_id, criteria_id)
        IN /\ inventory' = a.inv
           /\ trade_criteria' = DecrementOnAssign(trade_criteria, trade_id, criteria_id, a.count)
           /\ last' = Op("assign", trade_id, criteria_id, a.count)
           /\ result' = NoResult
           /\ rt' = IF /\ Distinct(serials)
                       /\ \A s \in Range(serials) : inventory[s].is_assigned = 0
                       /\ get_trade_criteria_ids(trade_criteria, trade_id) # {}
                      THEN [stage |-> "assigned", trade |-> trade_id, serials |-> serials,
                            cid |-> criteria_id,
                            before |-> TradeQuantity(trade_criteria, trade_id)]
                      ELSE RtIdle
           /\ UNCHANGED <<next_criteria_id, now, inflight, inventory_reservations>>

\* POST /api/trades/unassign (routes/trades.py 258-302), no request in between.
\* last.cid is the id of the first criteria the request recreated, if any.
UnassignFromTradeRoute ==
    \E serials \in SerialLists :
        LET u == unassign_inventory_from_trade(inventory, trade_criteria,
                                               next_criteria_id, now, serials)
        IN /\ u.next_id <= MaxCriteriaId + 1
           /\ \A c \in DOMAIN u.tc : u.tc[c].quantity_required <= MaxQty
           /\ inventory' = u.inv
           /\ trade_criteria' = u.tc
           /\ next_criteria_id' = u.next_id
           /\ last' = Op("unassign", NULL,
                         IF u.next_id > next_criteria_id THEN next_criteria_id
                         ELSE NoCriteria,
                         Len(serials))
           /\ result' = NoResult
           /\ rt' = IF rt.stage = "assigned" /\ rt.serials = serials
                      THEN [rt EXCEPT !.stage = "done"] ELSE RtIdle
           /\ UNCHANGED <<now, inflight, inventory_reservations>>

\* get_criteria_allocation_status (database.py 3159-3354): a read of the store.
GetCriteriaAllocationStatus ==
    \E all_criteria \in FifoOrders(trade_criteria),
       available_inventory \in AvailableRowOrders(inventory) :
        /\ result' = get_criteria_allocation_status(
                        trade_criteria, inventory, all_criteria, available_inventory)
        /\ last' = Op("allocation_status", NULL, NoCriteria, 0)
        /\ rt' = RtIdle
        /\ UNCHANGED <<inventory, trade_criteria, next_criteria_id, now, inflight, inventory_reservations>>

\* POST /api/trades/bulk-assign (routes/trades.py 308-389): the units go to the
\* trade and no criteria is adjusted.  The check against the trade's notional
\* reads the trades sheet, which is outside this model: the request passes it.
BulkAssignToTradeRoute(trades) ==
    \E serials \in SerialLists, trade_id \in trades :
        LET a == assign_inventory_to_trade(inventory, trade_criteria, serials, trade_id, NoCriteria)
        IN /\ inventory' = a.inv
           /\ last' = Op("bulk_assign", trade_id, NoCriteria, a.count)
           /\ result' = NoResult
           /\ rt' = RtIdle
           /\ UNCHANGED <<trade_criteria, next_criteria_id, now, inflight, inventory_reservations>>

\* Quantities a PUT request may carry: the route does not validate them.
AnyQuantity == (0 - 1)..MaxQty

\* A PUT request that repeats the quantity, or the filter, the row has.
SameQuantity(c) ==
    IF c \in DOMAIN trade_criteria THEN {trade_criteria[c].quantity_required} ELSE {1}
SameFilter(c) ==
    IF c \in DOMAIN trade_criteria THEN {FilterOf(trade_criteria[c])} ELSE {AnyFilter}

\* ---------------------------------------------------------------- Spec
\* Requests served one at a time: criteria with one filter, every quantity.
Next ==
    \/ AssignCriteriaOnlyRoute(0..MaxQty, {AnyFilter})
    \/ UpdateSingleCriteriaRoute([c \in CriteriaIds |-> AnyQuantity],
                                 [c \in CriteriaIds |-> {AnyFilter}])
    \/ RemoveSingleCriteriaRoute
    \/ AssignToTradeRoute({NoCriteria} \cup CriteriaIds)
    \/ UnassignFromTradeRoute

Spec == Init /\ [][Next]_vars

\* ---------------------------------------------------------- SpecSnapshot
\* Requests served one at a time: assignment through a criteria, with every
\* filter; a PUT request changes the filter and keeps the quantity.
NextSnapshot ==
    \/ AssignCriteriaOnlyRoute(1..MaxQty, FilterInputs)
    \/ UpdateSingleCriteriaRoute([c \in CriteriaIds |-> SameQuantity(c)],
                                 [c \in CriteriaIds |-> FilterInputs])
    \/ RemoveSingleCriteriaRoute
    \/ AssignToTradeRoute(CriteriaIds)
    \/ UnassignFromTradeRoute

SpecSnapshot == Init /\ [][NextSnapshot]_vars

\* --------------------------------------------------------- SpecOptimizer
\* The optimizer read against registries built through the routes: criteria
\* of every filter and quantity, created at the same or at different seconds.
OptimizerFilters == {AnyFilter, VerraFilter, GoldFilter}

NextOptimizer ==
    \/ Tick
    \/ AssignCriteriaOnlyRoute(1..MaxQty, OptimizerFilters)
    \/ UpdateSingleCriteriaRoute([c \in CriteriaIds |-> AnyQuantity],
                                 [c \in CriteriaIds |-> SameFilter(c)])
    \/ BulkAssignToTradeRoute({"T1"})
    \/ GetCriteriaAllocationStatus

SpecOptimizer == Init /\ [][NextOptimizer]_vars

\* --------------------------------------------------------------- SpecDec
\* Decrement calls on registries of records with positive quantity.
DecIds == 1..(MaxCriteriaId + 1)

DecRows ==
    {CriteriaRow(t, "sell", q, AnyFilter, "criteria_only", 0) :
        t \in Trades, q \in 1..MaxQty}

DecRegistries == UNION {[D -> DecRows] : D \in SUBSET DecIds}

InitDec ==
    /\ inventory = BaseInventory
    /\ trade_criteria \in DecRegistries
    /\ next_criteria_id = MaxCriteriaId + 2
    /\ now = 0
    /\ inflight = <<>>
    /\ inventory_reservations = <<>>
    /\ result = NoResult
    /\ last = Op("init", NULL, NoCriteria, 0)
    /\ rt = RtIdle

\* update_criteria_quantity(trade_id, -n) for n >= 1.
DecrementTrade ==
    \E trade_id \in Trades, n \in 1..(MaxQty + 1) :
        /\ trade_criteria' = update_criteria_quantity(trade_criteria, trade_id, 0 - n)
        /\ last' = Op("update_criteria_quantity", trade_id, NoCriteria, n)
        /\ UNCHANGED <<inventory, next_criteria_id, now, inflight, result, rt, inventory_reservations>>

\* update_specific_criteria_quantity(criteria_id, -n) for n >= 1, on a stored
\* record.
DecrementSpecific ==
    \E criteria_id \in DOMAIN trade_criteria, n \in 1..(MaxQty + 1) :
        /\ trade_criteria' =
              update_specific_criteria_quantity(trade_criteria, criteria_id, 0 - n)
        /\ last' = Op("update_specific_criteria_quantity", NULL, criteria_id, n)
        /\ UNCHANGED <<inventory, next_criteria_id, now, inflight, result, rt, inventory_reservations>>

NextDec ==
    \/ DecrementTrade
    \/ DecrementSpecific

SpecDec == InitDec /\ [][NextDec]_vars

\* -------------------------------------------------------------- SpecConc
\* Requests served by concurrent threads (app.py 1124: the development
\* server handles each request in its own thread).  Every database function
\* opens its own connection and commits on its own, so a request is a
\* sequence of transactions and other requests run between them.  inflight
\* holds the requests that have committed their inventory update and have
\* not yet adjusted the criteria.
AssignPending(trade_id, criteria_id, count) ==
    [kind |-> "assign", trade_id |-> trade_id, criteria_id |-> criteria_id,
     count |-> count, entries |-> <<>>]

UnassignPending(entries) ==
    [kind |-> "unassign", trade_id |-> NULL, criteria_id |-> NoCriteria,
     count |-> 0, entries |-> entries]

Without(seq, i) == SubSeq(seq, 1, i - 1) \o SubSeq(seq, i + 1, Len(seq))

\* assign_to_trade up to the commit of assign_inventory_to_trade
\* (routes/trades.py 220).
AssignToTradeBegin(criteria_ids) ==
    \E serials \in SerialLists, trade_id \in Trades, criteria_id \in criteria_ids :
        LET a == assign_inventory_to_trade(inventory, trade_criteria, serials, trade_id, criteria_id)
        IN /\ Len(inflight) < MaxInflight
           /\ inventory' = a.inv
           /\ inflight' = Append(inflight, AssignPending(trade_id, criteria_id, a.count))
           /\ last' = Op("assign_begin", trade_id, criteria_id, a.count)
           /\ result' = NoResult
           /\ rt' = RtIdle
           /\ UNCHANGED <<trade_criteria, next_criteria_id, now, inventory_reservations>>

\* assign_to_trade from the decrement on (routes/trades.py 235-242).
AssignToTradeDecrement ==
    \E i \in DOMAIN inflight :
        /\ inflight[i].kind = "assign"
        /\ trade_criteria' = DecrementOnAssign(trade_criteria, inflight[i].trade_id,
                                               inflight[i].criteria_id, inflight[i].count)
        /\ inflight' = Without(inflight, i)
        /\ last' = Op("assign_decrement", inflight[i].trade_id,
                      inflight[i].criteria_id, inflight[i].count)
        /\ result' = NoResult
        /\ rt' = RtIdle
        /\ UNCHANGED <<inventory, next_criteria_id, now, inventory_reservations>>

\* unassign_inventory_from_trade up to its commit (database.py 1518-1578); a
\* request with nothing to restore is over.
UnassignFromTradeBegin ==
    \E serials \in SerialLists :
        LET entries == CriteriaToRestore(inventory, trade_criteria, serials, <<>>)
        IN /\ entries # <<>> => Len(inflight) < MaxInflight
           /\ inventory' = UnassignRows(inventory, serials)
           /\ inflight' = IF entries = <<>> THEN inflight
                          ELSE Append(inflight, UnassignPending(entries))
           /\ last' = Op("unassign_begin", NULL, NoCriteria, Len(serials))
           /\ result' = NoResult
           /\ rt' = RtIdle
           /\ UNCHANGED <<trade_criteria, next_criteria_id, now, inventory_reservations>>

\* One call of restore_criteria_on_unassign in the loop of
\* unassign_inventory_from_trade (database.py 1583-1590).
UnassignFromTradeRestore ==
    \E i \in DOMAIN inflight :
        LET entry == Head(inflight[i].entries)
            reg == restore_criteria_on_unassign(
                      [tc |-> trade_criteria, next_id |-> next_criteria_id], now,
                      entry.criteria_id, entry.count, entry.snapshot)
        IN /\ inflight[i].kind = "unassign"
           /\ reg.next_id <= MaxCriteriaId + 1
           /\ \A c \in DOMAIN reg.tc : reg.tc[c].quantity_required <= MaxQty
           /\ trade_criteria' = reg.tc
           /\ next_criteria_id' = reg.next_id
           /\ inflight' = IF Tail(inflight[i].entries) = <<>>
                            THEN Without(inflight, i)
                            ELSE [inflight EXCEPT ![i].entries = Tail(@)]
           /\ last' = Op("unassign_restore", NULL, entry.criteria_id, entry.count)
           /\ result' = NoResult
           /\ rt' = RtIdle
           /\ UNCHANGED <<inventory, now, inventory_reservations>>

NextConc ==
    \/ AssignCriteriaOnlyRoute(1..MaxQty, {AnyFilter})
    \/ RemoveSingleCriteriaRoute
    \/ AssignToTradeBegin({NoCriteria} \cup CriteriaIds)
    \/ AssignToTradeDecrement
    \/ UnassignFromTradeBegin
    \/ UnassignFromTradeRestore
    \/ GetCriteriaAllocationStatus

SpecConc == Init /\ [][NextConc]_vars

\* --------------------------------------------------------- SpecSimulator
\* The claim simulator read against inventories whose units have a vintage or
\* none (an item added without one is stored with vintage '') or are assigned,
\* and against criteria and searches with a registry or a vintage bound.
FromFilter == MkFilter(NULL, <<2, 0, 2, 1>>, VNULL)

SimulatorFilters == {AnyFilter, VerraFilter, FromFilter}

\* A unit as the simulator may find it: available with its vintage, available
\* without a vintage, or assigned to a trade by a bulk assignment.
SimulatorRows(row) ==
    {row, [row EXCEPT !.vintage = <<>>], AssignRow(row, "T1", NoCriteria, SnapshotNull)}

SimulatorInventories ==
    {inv \in [Serials -> UNION {SimulatorRows(BaseInventory[s]) : s \in Serials}] :
        \A s \in Serials : inv[s] \in SimulatorRows(BaseInventory[s])}

InitSimulator ==
    /\ inventory \in SimulatorInventories
    /\ trade_criteria = <<>>
    /\ next_criteria_id = 1
    /\ now = 0
    /\ inflight = <<>>
    /\ inventory_reservations = <<>>
    /\ result = NoResult
    /\ last = Op("init", NULL, NoCriteria, 0)
    /\ rt = RtIdle

\* POST /api/trades/check-availability (routes/trades.py 527-560): the search
\* carries the seven fields the route reads, market is not one of them.
CheckInventoryAvailability(filters) ==
    \E search_criteria \in filters, all_criteria \in FifoOrders(trade_criteria) :
        /\ search_criteria.market = NULL
        /\ result' = get_available_after_criteria_claims(
                        trade_criteria, inventory, all_criteria, search_criteria)
        /\ last' = Op("check_availability", NULL, NoCriteria, 0)
        /\ rt' = RtIdle
        /\ UNCHANGED <<inventory, trade_criteria, next_criteria_id, now, inflight, inventory_reservations>>

NextSimulator ==
    \/ Tick
    \/ AssignCriteriaOnlyRoute(1..MaxQty, SimulatorFilters)
    \/ UpdateSingleCriteriaRoute([c \in CriteriaIds |-> AnyQuantity],
                                 [c \in CriteriaIds |-> SameFilter(c)])
    \/ CheckInventoryAvailability(SimulatorFilters)

SpecSimulator == InitSimulator /\ [][NextSimulator]_vars

\* ------------------------------------------------------ matcher on its own
\* Units the Matcher may be given: with or without a market, one of two
\* registries, and a vintage that is NULL, '', or a year.
MatcherRows ==
    {[InventoryRow(registry, vintage) EXCEPT !.market = market] :
        market \in {"CCA", ""}, registry \in {"Verra", "GS"},
        vintage \in {VNULL, <<>>, <<2, 0, 2, 0>>, <<2, 0, 2, 2>>}}

\* Criteria the Matcher may be given: every field unset (None or '') or set.
MatcherFilters ==
    {[MkFilter(registry, vintage_from, vintage_to) EXCEPT !.market = market] :
        market \in {NULL, "", "CCA"}, registry \in {NULL, "", "Verra"},
        vintage_from \in {VNULL, <<>>, <<2, 0, 2, 1>>},
        vintage_to \in {VNULL, <<2, 0, 2, 1>>, <<2, 0, 2, 1, 0>>}}

InitMatcher ==
    /\ inventory \in [Serials -> MatcherRows]
    /\ trade_criteria = <<>>
    /\ next_criteria_id = 1
    /\ now = 0
    /\ inflight = <<>>
    /\ inventory_reservations = <<>>
    /\ result = NoResult
    /\ last = Op("init", NULL, NoCriteria, 0)
    /\ rt = RtIdle

\* One call of check_inventory_matches_criteria (database.py 2964-2998) on a
\* unit of the store: it reads its two arguments and writes nothing.
CheckMatch ==
    \E serial \in Serials, criteria \in MatcherFilters :
        /\ result' = [kind |-> "match", item |-> inventory[serial], criteria |-> criteria,
                      value |-> check_inventory_matches_criteria(inventory[serial], criteria)]
        /\ last' = Op("check_match", NULL, NoCriteria, serial)
        /\ rt' = RtIdle
        /\ UNCHANGED <<inventory, trade_criteria, next_criteria_id, now, inflight, inventory_reservations>>

NextMatcher == CheckMatch

SpecMatcher == InitMatcher /\ [][NextMatcher]_vars

\* ------------------------------------------------------------ store failure
\* What get_criteria_allocation_status returns when the connection or one of
\* its queries raises (database.py 3356-3367).
AllocationStatusOnError ==
    [kind |-> "allocation_status",
     trade_status |-> <<>>,
     total_available |-> 0,
     total_required |-> 0,
     conflicts |-> <<>>,
     allocation_possible |-> TRUE,
     error |-> "error"]

\* What get_available_after_criteria_claims returns when the connection or one
\* of its queries raises (database.py 3146-3156).
AvailabilityOnError ==
    [kind |-> "availability",
     total_matching |-> 0,
     claimed_by_criteria |-> 0,
     available |-> 0,
     criteria_claims |-> <<>>,
     error |-> "error"]

\* get_trade_criteria_summary (database.py 3434-3482): the criteria_only rows
\* of each trade in the order read; {} when the store raises.
get_trade_criteria_summary(tc, rows) ==
    [t \in {tc[c].trade_id : c \in Range(rows)} |->
        SelectSeq(rows, LAMBDA c : tc[c].trade_id = t)]

\* ORDER BY trade_id, created_at over the criteria_only rows.
SummaryOrders(tc) ==
    LET S == {c \in DOMAIN tc : tc[c].status = "criteria_only"}
    IN {s \in Perms(S) :
          \A i, j \in DOMAIN s : i < j =>
              \/ tc[s[i]].trade_id = tc[s[j]].trade_id
                    /\ tc[s[i]].created_at <= tc[s[j]].created_at
              \/ tc[s[i]].trade_id = "T1" /\ tc[s[j]].trade_id = "T2"}

\* The JSON body of GET /api/trades/allocation-status (routes/trades.py
\* 1043-1051): status.get(key, default) for five keys of the status, 'error'
\* not among them.  store_failed records whether the store raised.
AllocationStatusResponse(status, summary, store_failed) ==
    [kind |-> "response",
     route |-> "allocation-status",
     code |-> 200,
     success |-> TRUE,
     trade_status |-> status.trade_status,
     total_available |-> status.total_available,
     total_required |-> status.total_required,
     allocation_possible |-> status.allocation_possible,
     conflicts |-> status.conflicts,
     criteria_summary |-> summary,
     store_failed |-> store_failed]

\* inventory_items of the simulator (database.py 3124-3136), present only on
\* the path that runs the claim loop.
inventory_items(pool, criteria_claims) ==
    [k \in DOMAIN pool |->
        LET claims == {n \in DOMAIN criteria_claims : pool[k] \in criteria_claims[n].items}
        IN [serial |-> pool[k],
            status |-> IF claims # {} THEN "claimed" ELSE "available",
            claimed_by_trade |->
                IF claims # {}
                  THEN criteria_claims[CHOOSE n \in claims : TRUE].trade_id ELSE NULL]]

\* The JSON body of POST /api/trades/check-availability (routes/trades.py
\* 551-558): result.get(key, default) for five keys, 'error' not among them.
CheckAvailabilityResponse(r, items, store_failed) ==
    [kind |-> "response",
     route |-> "check-availability",
     code |-> 200,
     success |-> TRUE,
     total_matching |-> r.total_matching,
     claimed_by_criteria |-> r.claimed_by_criteria,
     available |-> r.available,
     criteria_claims |-> r.criteria_claims,
     inventory_items |-> items,
     store_failed |-> store_failed]

\* GET /api/trades/allocation-status (routes/trades.py 1031-1053).  Each of the
\* two reads opens its own connection, and either may raise; both catch the
\* exception themselves, so the route's own except branch is never taken.
GetAllocationStatusRoute ==
    \E status_fails \in BOOLEAN, summary_fails \in BOOLEAN,
       all_criteria \in FifoOrders(trade_criteria),
       available_inventory \in AvailableRowOrders(inventory),
       rows \in SummaryOrders(trade_criteria) :
        LET status == IF status_fails THEN AllocationStatusOnError
                      ELSE get_criteria_allocation_status(
                              trade_criteria, inventory, all_criteria, available_inventory)
            summary == IF summary_fails THEN <<>>
                       ELSE get_trade_criteria_summary(trade_criteria, rows)
        IN /\ result' = AllocationStatusResponse(status, summary, status_fails)
           /\ last' = Op("allocation_status_route", NULL, NoCriteria, 0)
           /\ rt' = RtIdle
           /\ UNCHANGED <<inventory, trade_criteria, next_criteria_id, now, inflight, inventory_reservations>>

\* POST /api/trades/check-availability (routes/trades.py 527-560), the store
\* raising or not.
CheckInventoryAvailabilityRoute(filters) ==
    \E store_fails \in BOOLEAN, search_criteria \in filters,
       all_criteria \in FifoOrders(trade_criteria) :
        LET r == IF store_fails THEN AvailabilityOnError
                 ELSE get_available_after_criteria_claims(
                          trade_criteria, inventory, all_criteria, search_criteria)
            pool == matching_inventory(inventory, search_criteria)
            items == IF store_fails \/ Len(pool) = 0 \/ all_criteria = <<>> THEN <<>>
                     ELSE inventory_items(pool, r.criteria_claims)
        IN /\ search_criteria.market = NULL
           /\ result' = CheckAvailabilityResponse(r, items, store_fails)
           /\ last' = Op("check_availability_route", NULL, NoCriteria, 0)
           /\ rt' = RtIdle
           /\ UNCHANGED <<inventory, trade_criteria, next_criteria_id, now, inflight, inventory_reservations>>

NextFailure ==
    \/ Tick
    \/ AssignCriteriaOnlyRoute(1..MaxQty, FilterInputs)
    \/ BulkAssignToTradeRoute({"T1"})
    \/ GetAllocationStatusRoute
    \/ CheckInventoryAvailabilityRoute(FilterInputs)

SpecFailure == Init /\ [][NextFailure]_vars

\* ---------------------------------------------------------------- SpecViews
\* The two reads against the same registries: criteria of every filter with
\* quantities of at least one, the simulator asked with an empty search.
NextViews ==
    \/ Tick
    \/ AssignCriteriaOnlyRoute(1..MaxQty, OptimizerFilters)
    \/ CheckInventoryAvailability({AnyFilter})
    \/ GetCriteriaAllocationStatus

SpecViews == Init /\ [][NextViews]_vars

\* ------------------------------------------------------------ reservations
MaxReservations == 2

\* A row of inventory_reservations (database.py 635-648).
ReservationRow(trade_id, criteria_id, serial, status) ==
    [trade_id |-> trade_id, criteria_id |-> criteria_id, serial |-> serial, status |-> status]

\* UPDATE inventory_reservations SET status = ? WHERE serial = ? AND status = 'active'
CloseReservations(res, serial, status) ==
    [k \in DOMAIN res |->
        IF res[k].serial = serial /\ res[k].status = "active"
          THEN [res[k] EXCEPT !.status = status] ELSE res[k]]

\* reserve_inventory (database.py 2310-2376), one serial after the other: a
\* unit is skipped only when it is already reserved.  acc = [inv, res, count].
RECURSIVE reserve_inventory(_, _, _, _)
reserve_inventory(acc, serials, trade_id, criteria_id) ==
    IF serials = <<>> THEN acc
    ELSE
      LET serial == Head(serials)
          row == acc.inv[serial]
      IN IF row.is_reserved = 1
           THEN reserve_inventory(acc, Tail(serials), trade_id, criteria_id)
           ELSE reserve_inventory(
                    [inv |-> [acc.inv EXCEPT ![serial] =
                                 [row EXCEPT !.is_reserved = 1,
                                             !.reserved_for_trade_id = trade_id]],
                     res |-> Append(acc.res,
                                    ReservationRow(trade_id, criteria_id, serial, "active")),
                     count |-> acc.count + 1],
                    Tail(serials), trade_id, criteria_id)

\* release_reservation (database.py 2379-2423).
RECURSIVE release_reservation(_, _)
release_reservation(acc, serials) ==
    IF serials = <<>> THEN acc
    ELSE
      LET serial == Head(serials)
          row == acc.inv[serial]
      IN IF row.is_reserved = 1
           THEN release_reservation(
                    [inv |-> [acc.inv EXCEPT ![serial] =
                                 [row EXCEPT !.is_reserved = 0,
                                             !.reserved_for_trade_id = NULL]],
                     res |-> CloseReservations(acc.res, serial, "released"),
                     count |-> acc.count + 1],
                    Tail(serials))
           ELSE release_reservation(acc, Tail(serials))

\* mark_reservation_delivered (database.py 2485-2539): the unit goes to the
\* trade it is reserved for, whatever trade holds it.
RECURSIVE mark_reservation_delivered(_, _)
mark_reservation_delivered(acc, serials) ==
    IF serials = <<>> THEN acc
    ELSE
      LET serial == Head(serials)
          row == acc.inv[serial]
      IN IF row.is_reserved = 1 /\ Truthy(row.reserved_for_trade_id)
           THEN mark_reservation_delivered(
                    [inv |-> [acc.inv EXCEPT ![serial] =
                                 [row EXCEPT !.is_assigned = 1,
                                             !.trade_id = row.reserved_for_trade_id,
                                             !.is_reserved = 0,
                                             !.reserved_for_trade_id = NULL]],
                     res |-> CloseReservations(acc.res, serial, "delivered"),
                     count |-> acc.count + 1],
                    Tail(serials))
           ELSE mark_reservation_delivered(acc, Tail(serials))

\* The store as the three functions take it.
ReservationStore == [inv |-> inventory, res |-> inventory_reservations, count |-> 0]

ReserveInventory ==
    \E serials \in SerialLists, trade_id \in Trades :
        LET r == reserve_inventory(ReservationStore, serials, trade_id, NoCriteria)
        IN /\ Len(r.res) <= MaxReservations
           /\ inventory' = r.inv
           /\ inventory_reservations' = r.res
           /\ last' = Op("reserve", trade_id, NoCriteria, r.count)
           /\ result' = NoResult
           /\ rt' = RtIdle
           /\ UNCHANGED <<trade_criteria, next_criteria_id, now, inflight>>

ReleaseReservation ==
    \E serials \in SerialLists :
        LET r == release_reservation(ReservationStore, serials)
        IN /\ inventory' = r.inv
           /\ inventory_reservations' = r.res
           /\ last' = Op("release", NULL, NoCriteria, r.count)
           /\ result' = NoResult
           /\ rt' = RtIdle
           /\ UNCHANGED <<trade_criteria, next_criteria_id, now, inflight>>

MarkReservationDelivered ==
    \E serials \in SerialLists :
        LET r == mark_reservation_delivered(ReservationStore, serials)
        IN /\ inventory' = r.inv
           /\ inventory_reservations' = r.res
           /\ last' = Op("deliver", NULL, NoCriteria, r.count)
           /\ result' = NoResult
           /\ rt' = RtIdle
           /\ UNCHANGED <<trade_criteria, next_criteria_id, now, inflight>>

\* The five functions called one at a time on a store without criteria:
\* assignments carry no criteria id and unassignments restore nothing.
NextReserve ==
    \/ ReserveInventory
    \/ ReleaseReservation
    \/ MarkReservationDelivered
    \/ BulkAssignToTradeRoute(Trades)
    \/ UnassignFromTradeRoute

SpecReserve == Init /\ [][NextReserve]_vars

\* =====================================================================
\* Claims about get_criteria_allocation_status.  `result` holds its return
\* value exactly while the store is as the call read it.
\* =====================================================================
StatusReturned == result.kind = "allocation_status" /\ result.detailed

\* The available units matching criteria c, as a set.
MatchSet(c) ==
    {u \in AvailableUnits(inventory) :
        check_inventory_matches_criteria(inventory[u], trade_criteria[c])}

CreatedBefore(a, b) == trade_criteria[a].created_at < trade_criteria[b].created_at

\* A and B contend: A is older and the units matching both are fewer than
\* the two quantities together.
Contend(a, b) ==
    /\ a # b
    /\ CreatedBefore(a, b)
    /\ Cardinality(MatchSet(a) \cap MatchSet(b))
         < trade_criteria[a].quantity_required + trade_criteria[b].quantity_required

TakenBefore(k) ==
    UNION {result.criteria_status[result.all_criteria[i]].taken : i \in 1..(k - 1)}

\* C2: in the FIFO pass every criteria c, in processing order, is allocated
\* exactly min(quantity_required, matching units no earlier criteria took),
\* and is 'conflict' exactly when those units are fewer than quantity_required.
C2_FifoAllocation ==
    StatusReturned =>
        \A k \in DOMAIN result.all_criteria :
            LET c == result.all_criteria[k]
                remaining == MatchSet(c) \ TakenBefore(k)
                required == trade_criteria[c].quantity_required
                share == Min(required, Cardinality(remaining))
            IN /\ \A i \in 1..(k - 1) :
                     trade_criteria[result.all_criteria[i]].created_at
                       <= trade_criteria[c].created_at
               /\ result.criteria_status[c].allocated = share
               /\ result.criteria_status[c].taken \subseteq remaining
               /\ Cardinality(result.criteria_status[c].taken) = Max(0, share)
               /\ (result.criteria_status[c].status = "conflict")
                    <=> (Cardinality(remaining) < required)

\* C3: allocation_possible is true exactly when no entry of criteria_status
\* is 'conflict', whatever the pairwise conflicts list holds.
C3_AllocationPossible ==
    result.kind = "allocation_status" =>
        (result.allocation_possible
            <=> \A c \in DOMAIN result.criteria_status :
                    result.criteria_status[c].status # "conflict")

\* The pairwise check reports a conflict and the FIFO pass satisfies everyone.
C3_Witness ==
    /\ StatusReturned
    /\ result.conflicts # <<>>
    /\ result.allocation_possible
    /\ Cardinality(DOMAIN result.criteria_status) >= 2

\* =====================================================================
\* Claims about the requests served one at a time.
\* =====================================================================
\* C4: an assign request never overwrites the trade of a unit that is already
\* assigned: after the request the unit still belongs to the trade it had.
C4_NoDoubleAssign ==
    [][last'.op = "assign" =>
         \A s \in Serials :
             inventory[s].is_assigned = 1 =>
                 inventory'[s].trade_id = inventory[s].trade_id]_vars

\* C6: assigning k unassigned units to a trade that has active criteria and
\* then unassigning the same k units leaves the sum of quantity_required over
\* the trade's active criteria as it was before the assign.
C6_AssignUnassignRoundTrip ==
    rt.stage = "done" => TradeQuantity(trade_criteria, rt.trade) = rt.before

\* C8: every stored criteria_only record has quantity_required >= 1.
C8_QuantityAtLeastOne ==
    \A c \in DOMAIN trade_criteria :
        trade_criteria[c].status = "criteria_only" =>
            trade_criteria[c].quantity_required >= 1

\* C10: the decrement of an assign request without criteria id consumes the
\* trade's criteria in ascending id order: a criteria is reduced only when
\* every lower-id criteria of the trade is deleted, the trade's total goes
\* down by min(count, total), and the other trades' criteria are unchanged.
C10_GreedyAscending ==
    [][(/\ last'.op = "assign"
        /\ last'.cid = NoCriteria
        /\ last'.n > 0
        /\ get_trade_criteria_ids(trade_criteria, last'.trade) # {}) =>
         LET ids == get_trade_criteria_ids(trade_criteria, last'.trade)
             total == TradeQuantity(trade_criteria, last'.trade)
             Reduced(c) == \/ c \notin DOMAIN trade_criteria'
                           \/ trade_criteria'[c] # trade_criteria[c]
         IN /\ \A c \in ids : Reduced(c) =>
                  \A d \in ids : d < c => d \notin DOMAIN trade_criteria'
            /\ total - TradeQuantity(trade_criteria', last'.trade) = Min(last'.n, total)
            /\ \A c \in DOMAIN trade_criteria \ ids : ~ Reduced(c)
            /\ DOMAIN trade_criteria' \subseteq DOMAIN trade_criteria]_vars

\* The units an unassign step releases.
Released == {s \in Serials : inventory[s].is_assigned = 1 /\ inventory'[s].is_assigned = 0}

\* C7: units assigned through an existing criteria C carry C's trade id and
\* filter fields; when k units that carry the same snapshot of a criteria
\* that no longer exists are unassigned in one request, exactly one record is
\* added to the registry: criteria_only, with the snapshot's trade id and
\* filter fields and quantity_required = k, and no other record changes.
C7_SnapshotRoundTrip ==
    [][/\ (last'.op = "assign" /\ last'.cid \in DOMAIN trade_criteria) =>
            \A s \in Serials :
                inventory'[s] # inventory[s] =>
                    /\ inventory'[s].criteria_id = last'.cid
                    /\ inventory'[s].criteria_snapshot.kind = "json"
                    /\ inventory'[s].criteria_snapshot.trade_id
                         = trade_criteria[last'.cid].trade_id
                    /\ FilterOf(inventory'[s].criteria_snapshot)
                         = FilterOf(trade_criteria[last'.cid])
       /\ (/\ last'.op = "unassign"
           /\ Released # {}
           /\ Cardinality(Released) = last'.n
           /\ \E s \in Released :
                 /\ inventory[s].criteria_id # NoCriteria
                 /\ inventory[s].criteria_id \notin DOMAIN trade_criteria
                 /\ inventory[s].criteria_snapshot.kind = "json"
                 /\ \A u \in Released :
                       /\ inventory[u].criteria_id = inventory[s].criteria_id
                       /\ inventory[u].criteria_snapshot = inventory[s].criteria_snapshot) =>
            LET snapshot == inventory[CHOOSE s \in Released : TRUE].criteria_snapshot
                id == next_criteria_id
            IN /\ DOMAIN trade_criteria' = DOMAIN trade_criteria \cup {id}
               /\ id \notin DOMAIN trade_criteria
               /\ \A c \in DOMAIN trade_criteria : trade_criteria'[c] = trade_criteria[c]
               /\ trade_criteria'[id].status = "criteria_only"
               /\ trade_criteria'[id].trade_id = snapshot.trade_id
               /\ FilterOf(trade_criteria'[id]) = FilterOf(snapshot)
               /\ trade_criteria'[id].quantity_required = Cardinality(Released)]_vars

\* An unassign request of MaxBatch units has just recreated a criteria with a
\* registry filter and quantity MaxBatch.
C7_Witness ==
    /\ last.op = "unassign"
    /\ last.n = MaxBatch
    /\ last.cid \in DOMAIN trade_criteria
    /\ trade_criteria[last.cid].quantity_required = MaxBatch
    /\ trade_criteria[last.cid].registry = "Verra"
    /\ \A s \in Serials : inventory[s].is_assigned = 0

\* =====================================================================
\* Claims about the decrement calls.
\* =====================================================================
DecrementOps == {"update_criteria_quantity", "update_specific_criteria_quantity"}

\* C9: a decrement call on records with positive quantity leaves every record
\* it keeps with a quantity between 1 and the quantity it had, adds no record,
\* and deletes the record whose quantity would reach zero or less.
C9_DecrementNeverBelowZero ==
    [][last'.op \in DecrementOps =>
         /\ DOMAIN trade_criteria' \subseteq DOMAIN trade_criteria
         /\ \A c \in DOMAIN trade_criteria' :
               /\ trade_criteria'[c].quantity_required >= 1
               /\ trade_criteria'[c].quantity_required
                    <= trade_criteria[c].quantity_required
         /\ (/\ last'.op = "update_specific_criteria_quantity"
             /\ trade_criteria[last'.cid].quantity_required - last'.n <= 0) =>
               last'.cid \notin DOMAIN trade_criteria']_vars

\* A decrement of a record by its whole quantity or more has deleted it, and
\* another record is still stored.
C9_Witness ==
    /\ last.op = "update_specific_criteria_quantity"
    /\ last.n >= MaxQty
    /\ last.cid \notin DOMAIN trade_criteria
    /\ trade_criteria # <<>>

\* =====================================================================
\* Claims about concurrent requests.
\* =====================================================================
\* The criteria change that request r has still to make would change the
\* registry.
PendingChange(r) ==
    IF r.kind = "assign"
      THEN DecrementOnAssign(trade_criteria, r.trade_id, r.criteria_id, r.count)
             # trade_criteria
      ELSE r.entries # <<>>

AdjustmentOps == {"assign_decrement", "unassign_restore"}

\* C5: while a request has committed its inventory flags and its criteria
\* change is still to be applied, it is the only request in flight and the
\* next step is its criteria change: no read and no other request comes
\* in between.
C5_AdjustmentAtomic ==
    [][(\E i \in DOMAIN inflight : PendingChange(inflight[i])) =>
         /\ Len(inflight) = 1
         /\ last'.op \in AdjustmentOps]_vars

\* =====================================================================
\* Claims about the assign request that names a criteria.
\* =====================================================================
\* C11: an assign request that names an active criteria c and assigns n units
\* reduces exactly c by n (c is deleted when nothing is left) and leaves every
\* other record as it was, whichever trade the request names.
C11_SpecificDecrementFrame ==
    [][(/\ last'.op = "assign"
        /\ last'.n > 0
        /\ last'.cid \in ActiveSell(trade_criteria)) =>
         LET c == last'.cid
             left == trade_criteria[c].quantity_required - last'.n
         IN /\ IF left <= 0
                 THEN c \notin DOMAIN trade_criteria'
                 ELSE /\ c \in DOMAIN trade_criteria'
                      /\ trade_criteria'[c] =
                           [trade_criteria[c] EXCEPT !.quantity_required = left]
            /\ \A d \in DOMAIN trade_criteria \ {c} :
                  d \in DOMAIN trade_criteria' /\ trade_criteria'[d] = trade_criteria[d]
            /\ DOMAIN trade_criteria' \subseteq DOMAIN trade_criteria]_vars

\* =====================================================================
\* Claims about the unassign request.
\* =====================================================================
\* The units an unassign step changes.
Touched == {s \in Serials : inventory'[s] # inventory[s]}

\* C12: an unassign request whose units all refer to a criteria that is not
\* in the registry and carry no snapshot unassigns each of them (flags, trade
\* and criteria reference cleared) and leaves the registry as it was: no
\* record is created and none is modified.
C12_RestoreNoOp ==
    [][/\ (/\ last'.op = "unassign"
           /\ Touched # {}
           /\ \A s \in Touched :
              /\ inventory[s].criteria_id # NoCriteria
              /\ inventory[s].criteria_id \notin DOMAIN trade_criteria
              /\ inventory[s].criteria_snapshot = SnapshotNull) =>
         /\ trade_criteria' = trade_criteria
         /\ next_criteria_id' = next_criteria_id
         /\ \A s \in Touched : inventory'[s] = UnassignRow(inventory[s])
         /\ \A s \in Touched : inventory'[s].is_assigned = 0
                                /\ inventory'[s].trade_id = NULL
       /\ (/\ rt.stage = "assigned"
           /\ rt'.stage = "done"
           /\ \A s \in Range(rt.serials) :
                 /\ inventory[s].criteria_id # NoCriteria
                 /\ inventory[s].criteria_id \notin DOMAIN trade_criteria
                 /\ inventory[s].criteria_snapshot = SnapshotNull) =>
            /\ trade_criteria' = trade_criteria
            /\ \A s \in Range(rt.serials) :
                  inventory'[s].is_assigned = 0 /\ inventory'[s].trade_id = NULL]_vars

\* Units were assigned under a criteria id that is not in the registry and
\* have just been unassigned again, nothing being recreated.
C12_Witness ==
    /\ rt.stage = "done"
    /\ last.op = "unassign"
    /\ last.cid = NoCriteria
    /\ rt.cid # NoCriteria
    /\ rt.cid \notin DOMAIN trade_criteria
    /\ \A s \in Range(rt.serials) : inventory[s].is_assigned = 0
    /\ trade_criteria # <<>>

\* =====================================================================
\* Further claims about get_criteria_allocation_status.
\* =====================================================================
StatusFields == {"status", "available", "required", "shortfall", "trade_id", "allocated"}

\* criteria_status as the caller receives it.
ReturnedCriteriaStatus(r) ==
    [c \in DOMAIN r.criteria_status |->
        [f \in StatusFields |-> r.criteria_status[c][f]]]

\* C13: a call that follows another call with no mutation in between returns
\* the same trade_status, criteria_status and allocated_serials, whatever the
\* order in which the store returned the rows.
C13_Deterministic ==
    [][(result.kind = "allocation_status" /\ result'.kind = "allocation_status") =>
         /\ result'.trade_status = result.trade_status
         /\ ReturnedCriteriaStatus(result') = ReturnedCriteriaStatus(result)
         /\ result'.allocated_serials = result.allocated_serials]_vars

\* C14: the simulator and the optimizer process the active criteria in
\* ascending id order, criteria with the same created_at included.
C14_AscendingIdOrder ==
    result.kind \in {"allocation_status", "availability"} =>
        \A i, j \in DOMAIN result.all_criteria :
            i < j => result.all_criteria[i] < result.all_criteria[j]

\* =====================================================================
\* Claims about get_available_after_criteria_claims.
\* =====================================================================
AvailabilityReturned == result.kind = "availability"

\* The pool of a search: the rows its query selects.
Pool(search_criteria) ==
    {s \in Serials : SqlSelects(inventory[s], search_criteria)}

\* The pool units that match criteria c.
PoolMatches(c, search_criteria) ==
    {u \in Pool(search_criteria) :
        check_inventory_matches_criteria(inventory[u], trade_criteria[c])}

\* C15: when no active criteria matches a unit of the pool of the search, the
\* call returns available = total_matching, claimed_by_criteria = 0 and no
\* criteria_claims.
C15_Conservation ==
    (/\ AvailabilityReturned
     /\ \A c \in ActiveSell(trade_criteria) :
           PoolMatches(c, result.search_criteria) = {}) =>
        /\ result.total_matching = Cardinality(Pool(result.search_criteria))
        /\ result.available = result.total_matching
        /\ result.claimed_by_criteria = 0
        /\ result.criteria_claims = <<>>

\* The pool is not empty and a criteria with a positive quantity matches an
\* available unit, but none of the pool.
C15_Witness ==
    /\ AvailabilityReturned
    /\ result.total_matching > 0
    /\ \A c \in ActiveSell(trade_criteria) :
          PoolMatches(c, result.search_criteria) = {}
    /\ \E c \in ActiveSell(trade_criteria) :
          /\ trade_criteria[c].quantity_required >= 1
          /\ \E u \in AvailableUnits(inventory) :
                check_inventory_matches_criteria(inventory[u], trade_criteria[c])

\* What criteria c claimed according to criteria_claims.
ClaimOf(c) ==
    LET ks == {k \in DOMAIN result.criteria_claims :
                  result.criteria_claims[k].criteria_id = c}
    IN IF ks = {} THEN [quantity_claimed |-> 0, items |-> {}]
       ELSE result.criteria_claims[CHOOSE k \in ks : TRUE]

ClaimedBefore(k) ==
    UNION {ClaimOf(result.all_criteria[i]).items : i \in 1..(k - 1)}

RECURSIVE SumClaimed(_)
SumClaimed(claims) ==
    IF claims = <<>> THEN 0
    ELSE Head(claims).quantity_claimed + SumClaimed(Tail(claims))

\* C16: each criteria, in creation order, claims exactly min(quantity_required,
\* pool units matching it that no earlier criteria claimed);
\* claimed_by_criteria is the sum of quantity_claimed, and available =
\* total_matching - claimed_by_criteria lies between 0 and total_matching.
C16_ClaimsAreMin ==
    AvailabilityReturned =>
        /\ \A k \in DOMAIN result.all_criteria :
              LET c == result.all_criteria[k]
                  remaining == PoolMatches(c, result.search_criteria) \ ClaimedBefore(k)
              IN /\ \A i \in 1..(k - 1) :
                       trade_criteria[result.all_criteria[i]].created_at
                         <= trade_criteria[c].created_at
                 /\ ClaimOf(c).quantity_claimed
                      = Min(trade_criteria[c].quantity_required, Cardinality(remaining))
                 /\ ClaimOf(c).items \subseteq remaining
                 /\ Cardinality(ClaimOf(c).items) = ClaimOf(c).quantity_claimed
        /\ result.claimed_by_criteria = SumClaimed(result.criteria_claims)
        /\ result.available = result.total_matching - result.claimed_by_criteria
        /\ 0 <= result.available
        /\ result.available <= result.total_matching

\* C17: total_matching is the number of unreserved and unassigned units that
\* check_inventory_matches_criteria accepts for the search filter.
C17_SqlFilterIsMatcher ==
    AvailabilityReturned =>
        result.total_matching =
            Cardinality({u \in AvailableUnits(inventory) :
                check_inventory_matches_criteria(inventory[u], result.search_criteria)})

\* C18: check_inventory_matches_criteria(U, F) changes nothing in the store and
\* is true exactly when every non-empty equality field of F equals U's field
\* and U's vintage, when non-empty, lies lexically within F's non-empty bounds.
EqualityFields == {"market", "registry", "product", "project_type", "protocol", "project_id"}

WithinBounds(vintage, criteria) ==
    /\ VTruthy(criteria.vintage_from) => ~StrLess(vintage, criteria.vintage_from)
    /\ VTruthy(criteria.vintage_to) => ~StrLess(criteria.vintage_to, vintage)

Accepts(item, criteria) ==
    /\ \A f \in EqualityFields : Truthy(criteria[f]) => item[f] = criteria[f]
    /\ VTruthy(item.vintage) => WithinBounds(item.vintage, criteria)

C18_MatcherPure ==
    [][last'.op = "check_match" =>
          /\ UNCHANGED <<inventory, trade_criteria>>
          /\ result'.value = Accepts(result'.item, result'.criteria)]_vars

\* A unit without a vintage accepted under a vintage bound by a criteria whose
\* registry it carries.
C18_Witness ==
    /\ result.kind = "match"
    /\ result.value
    /\ result.item.vintage = <<>>
    /\ VTruthy(result.criteria.vintage_from)
    /\ Truthy(result.criteria.registry)

\* C19: the conflicts list returned by get_criteria_allocation_status has an
\* entry for a pair of distinct active criteria exactly when the sum of their
\* quantities exceeds the number of available units matching both (zero
\* included), and the two trades of an entry are in each other's
\* conflicts_with.
CriteriaPairs ==
    {p \in (DOMAIN result.all_criteria) \X (DOMAIN result.all_criteria) : p[1] < p[2]}

CombinedNeed(p) ==
    trade_criteria[result.all_criteria[p[1]]].quantity_required
    + trade_criteria[result.all_criteria[p[2]]].quantity_required

OverlapCount(p) ==
    Cardinality(MatchSet(result.all_criteria[p[1]]) \cap MatchSet(result.all_criteria[p[2]]))

InConflict(p) == CombinedNeed(p) > OverlapCount(p)

PairEntry(p) ==
    [trade1 |-> trade_criteria[result.all_criteria[p[1]]].trade_id,
     trade2 |-> trade_criteria[result.all_criteria[p[2]]].trade_id,
     overlap_count |-> OverlapCount(p),
     combined_need |-> CombinedNeed(p)]

C19_ConflictsExact ==
    StatusReturned =>
        /\ Len(result.conflicts) = Cardinality({p \in CriteriaPairs : InConflict(p)})
        /\ \A p \in CriteriaPairs :
              InConflict(p) <=>
                  \E k \in DOMAIN result.conflicts : result.conflicts[k] = PairEntry(p)
        /\ \A k \in DOMAIN result.conflicts :
              /\ result.conflicts[k].trade2
                    \in result.trade_status[result.conflicts[k].trade1].conflicts_with
              /\ result.conflicts[k].trade1
                    \in result.trade_status[result.conflicts[k].trade2].conflicts_with

\* C20: when the store fails during get_criteria_allocation_status or
\* get_available_after_criteria_claims, the caller of the allocation-status /
\* check-availability operation never receives a success result with
\* allocation_possible true, empty trade_status and zero counts.
NoDataResponse ==
    /\ result.success
    /\ \/ /\ result.route = "allocation-status"
          /\ result.allocation_possible
          /\ result.trade_status = <<>>
          /\ result.total_available = 0
          /\ result.total_required = 0
       \/ /\ result.route = "check-availability"
          /\ result.total_matching = 0
          /\ result.claimed_by_criteria = 0
          /\ result.available = 0

C20_FailureIsDistinct ==
    (result.kind = "response" /\ result.store_failed) => ~NoDataResponse

\* =====================================================================
\* Claims about the aggregates of the optimizer's result.
\* =====================================================================
\* The criteria of trade t in the returned status.
CriteriaOfTrade(t) ==
    {c \in DOMAIN result.criteria_status : result.criteria_status[c].trade_id = t}

SumField(t, field) ==
    SumOver(CriteriaOfTrade(t),
            [c \in CriteriaOfTrade(t) |-> result.criteria_status[c][field]])

\* Every criteria the status was computed for requires at least one unit.
AllPositive ==
    \A c \in DOMAIN result.criteria_status : result.criteria_status[c].required >= 1

\* C21: for every trade, available, required and shortfall of trade_status
\* equal the sums of the same fields of its criteria in criteria_status,
\* criteria marked 'conflict' by the FIFO pass included.
C21_TradeSums ==
    StatusReturned =>
        \A t \in DOMAIN result.trade_status :
            /\ result.trade_status[t].available = SumField(t, "available")
            /\ result.trade_status[t].required = SumField(t, "required")
            /\ result.trade_status[t].shortfall = SumField(t, "shortfall")

\* C22: a trade's status is the worst of its criteria's: 'conflict' iff one of
\* them is 'conflict', 'sufficient' iff all of them are 'sufficient'.
C22_WorstStatus ==
    StatusReturned =>
        \A t \in DOMAIN result.trade_status :
            LET statuses == {result.criteria_status[c].status : c \in CriteriaOfTrade(t)}
            IN /\ result.trade_status[t].status = "conflict" <=> "conflict" \in statuses
               /\ result.trade_status[t].status = "sufficient" <=> statuses = {"sufficient"}
               /\ result.trade_status[t].status = "insufficient"
                    <=> ("insufficient" \in statuses /\ "conflict" \notin statuses)

\* A trade with a satisfied and a conflicting criteria, reported 'conflict'.
C22_Witness ==
    /\ StatusReturned
    /\ \E t \in DOMAIN result.trade_status :
          /\ result.trade_status[t].status = "conflict"
          /\ \E c, d \in CriteriaOfTrade(t) :
                /\ result.criteria_status[c].status = "sufficient"
                /\ result.criteria_status[d].status = "conflict"

\* C27: with all quantities >= 1 the FIFO pass gives no unit to two criteria
\* and allocates available units only: the allocated counts add up to the
\* number of allocated serials, which is at most total_available, and no
\* criteria is allocated more than it requires.
C27_NoDoubleAllocation ==
    (StatusReturned /\ AllPositive) =>
        LET cs == result.criteria_status
        IN /\ SumOver(DOMAIN cs, [c \in DOMAIN cs |-> cs[c].allocated])
                = Cardinality(result.allocated_serials)
           /\ Cardinality(result.allocated_serials) <= result.total_available
           /\ result.allocated_serials \subseteq AvailableUnits(inventory)
           /\ \A c \in DOMAIN cs :
                 /\ cs[c].allocated <= cs[c].required
                 /\ Cardinality(cs[c].taken) = cs[c].allocated
                 /\ \A d \in DOMAIN cs : c # d => cs[c].taken \cap cs[d].taken = {}

\* Two criteria that match the same units, each allocated one of them.
C27_Witness ==
    /\ StatusReturned
    /\ AllPositive
    /\ \E c, d \in DOMAIN result.criteria_status :
          /\ c # d
          /\ MatchSet(c) \cap MatchSet(d) # {}
          /\ result.criteria_status[c].allocated >= 1
          /\ result.criteria_status[d].allocated >= 1

\* C29: no trade conflicts with itself: no conflicts entry has trade1 = trade2
\* and no trade is in its own conflicts_with.
C29_NoSelfConflict ==
    StatusReturned =>
        /\ \A k \in DOMAIN result.conflicts :
              result.conflicts[k].trade1 # result.conflicts[k].trade2
        /\ \A t \in DOMAIN result.trade_status :
              t \notin result.trade_status[t].conflicts_with

\* C30: with all quantities >= 1 every criteria ends 'sufficient' or
\* 'conflict', 'sufficient' exactly when allocated = required, and its
\* shortfall is required - allocated.
C30_FinalStatus ==
    (StatusReturned /\ AllPositive) =>
        \A c \in DOMAIN result.criteria_status :
            LET cs == result.criteria_status[c]
            IN /\ cs.status \in {"sufficient", "conflict"}
               /\ cs.status = "sufficient" <=> cs.allocated = cs.required
               /\ cs.shortfall = cs.required - cs.allocated

\* A criteria that matches fewer units than it requires ('insufficient' after
\* the first pass) next to one that matches more than it requires.
C30_Witness ==
    /\ StatusReturned
    /\ AllPositive
    /\ \E c, d \in DOMAIN result.criteria_status :
          /\ result.criteria_status[c].available < result.criteria_status[c].required
          /\ result.criteria_status[c].status = "conflict"
          /\ result.criteria_status[d].available > result.criteria_status[d].required
          /\ result.criteria_status[d].status = "sufficient"

\* =====================================================================
\* Claims about unassigning in one request or in several.
\* =====================================================================
\* What the claim compares of a criteria record: everything but its id and
\* its creation time.
RecordShape(row) ==
    [trade_id |-> row.trade_id, direction |-> row.direction, status |-> row.status,
     filter |-> FilterOf(row), quantity_required |-> row.quantity_required]

\* The registry as the number of records of each shape.
RegistryShape(tc) ==
    [k \in {RecordShape(tc[c]) : c \in DOMAIN tc} |->
        Cardinality({c \in DOMAIN tc : RecordShape(tc[c]) = k})]

\* The registry after one unassign request for the two units.
UnassignedTogether(s, t) ==
    unassign_inventory_from_trade(inventory, trade_criteria, next_criteria_id, now, <<s, t>>).tc

\* The registry after one unassign request per unit.
UnassignedOneByOne(s, t) ==
    LET first == unassign_inventory_from_trade(inventory, trade_criteria,
                                               next_criteria_id, now, <<s>>)
    IN unassign_inventory_from_trade(first.inv, first.tc, first.next_id, now, <<t>>).tc

\* C24: for two units assigned through the same criteria, unassigning them in
\* one request and unassigning them in one request each leave the same
\* registry up to record ids, also when the criteria was deleted meanwhile.
C24_BatchEqualsOneByOne ==
    \A s, t \in Serials :
        (/\ s # t
         /\ inventory[s].is_assigned = 1
         /\ inventory[t].is_assigned = 1
         /\ inventory[s].criteria_id # NoCriteria
         /\ inventory[s].criteria_id = inventory[t].criteria_id)
        => RegistryShape(UnassignedTogether(s, t)) = RegistryShape(UnassignedOneByOne(s, t))

\* =====================================================================
\* Claims about reservations.
\* =====================================================================
\* C25: after any sequence of reserve, release, deliver, assign and unassign
\* calls no unit is reserved for one trade and assigned to a different trade.
C25_ReservedAndAssignedAgree ==
    \A s \in Serials :
        (inventory[s].is_reserved = 1 /\ inventory[s].is_assigned = 1)
            => inventory[s].reserved_for_trade_id = inventory[s].trade_id

\* =====================================================================
\* Claims about the matcher and units without a vintage.
\* =====================================================================
\* C23: for a unit whose vintage is empty or missing, the matcher returns
\* false whenever the filter sets a vintage bound, and true when it sets none
\* and every other set field is equal.
C23_EmptyVintageRejected ==
    (result.kind = "match" /\ ~VTruthy(result.item.vintage)) =>
        LET bounded == \/ VTruthy(result.criteria.vintage_from)
                       \/ VTruthy(result.criteria.vintage_to)
            equal == \A f \in EqualityFields :
                         Truthy(result.criteria[f]) => result.item[f] = result.criteria[f]
        IN /\ bounded => ~result.value
           /\ (~bounded /\ equal) => result.value

\* C23, as the code has it: for a unit whose vintage is empty or missing the
\* vintage bounds are skipped, so the matcher returns true exactly when every
\* set equality field of the filter equals the unit's, whatever bounds are set.
C23_EmptyVintageSkipsBounds ==
    (result.kind = "match" /\ ~VTruthy(result.item.vintage)) =>
        (result.value <=>
            \A f \in EqualityFields :
                Truthy(result.criteria[f]) => result.item[f] = result.criteria[f])

\* A unit with a NULL vintage accepted by a filter with an upper bound.
C23_Witness ==
    /\ result.kind = "match"
    /\ result.item.vintage = VNULL
    /\ VTruthy(result.criteria.vintage_to)
    /\ result.value

\* =====================================================================
\* Claims relating the simulator and the optimizer.
\* =====================================================================
\* C26: on the same store, with all quantities >= 1, the simulator asked with
\* an empty search claims as many units as the optimizer allocates serials.
C26_ViewsAgree ==
    [][(/\ result.kind = "availability"
        /\ result.search_criteria = AnyFilter
        /\ result'.kind = "allocation_status"
        /\ UNCHANGED <<inventory, trade_criteria>>
        /\ \A c \in DOMAIN trade_criteria : trade_criteria[c].quantity_required >= 1) =>
          result.claimed_by_criteria = Cardinality(result'.allocated_serials)]_vars

\* C28: with the inventory unchanged, adding a criteria changes neither the
\* allocated count nor the status of a criteria that already existed, for the
\* same order of the inventory rows and of the existing criteria.
C28_PrefixStable ==
    [][(/\ last'.op = "assign_criteria_only"
        /\ DOMAIN trade_criteria # DOMAIN trade_criteria'
        /\ UNCHANGED inventory) =>
          \A rows \in AvailableRowOrders(inventory),
             before \in FifoOrders(trade_criteria),
             after \in FifoOrders(trade_criteria') :
              (/\ before # <<>>
               /\ SelectSeq(after, LAMBDA c : c \in DOMAIN trade_criteria) = before) =>
                LET b == get_criteria_allocation_status(
                            trade_criteria, inventory, before, rows)
                    a == get_criteria_allocation_status(
                            trade_criteria', inventory, after, rows)
                IN \A c \in Range(before) :
                      /\ a.criteria_status[c].allocated = b.criteria_status[c].allocated
                      /\ a.criteria_status[c].status = b.criteria_status[c].status]_vars

====
